---------------------------- MODULE Spec2Model ----------------------------
(***************************************************************************)
(* A model of the LNURL-pay to MCP bridge of src/index.ts: the two routes  *)
(* (/.well-known/lnurlp/:username and /lnurlp/callback/:username), the     *)
(* McpClientService with its client registry (getClient, getInfo,          *)
(* makeInvoice, lookupInvoice, closeAll) and the SIGINT/SIGTERM handlers.  *)
(*                                                                         *)
(* JavaScript runs one task at a time; a request only gives up control at  *)
(* an await.  Every action below is one such uninterrupted stretch of      *)
(* code, from one await (or the arrival of the request) to the next.       *)
(***************************************************************************)
EXTENDS Integers, Sequences, FiniteSets, TLC

(***************************************************************************)
(* Bounds of the model.                                                    *)
(***************************************************************************)
\* Number of requests (callers of the service) a behaviour may hold.
MaxRequests == 2
\* Number of closeAll invocations a behaviour may hold.
MaxCloseAll == 2
\* Longest amount query parameter enumerated character by character.
MaxAmountLen == 4

Reqs == 1 .. MaxRequests
\* A Client object is created by the one getClient call that missed the
\* registry, so a client is named by the request that created it.
Handles == Reqs
NoHandle == 0
CloseCallers == 1 .. MaxCloseAll

(***************************************************************************)
(* Identifiers.  The :username path parameter is either an "npub1..."      *)
(* string (bech32, decoded by nostr-tools' decode, which throws when the   *)
(* string does not decode) or any other string, which is used as the       *)
(* server public key as it is.                                             *)
(***************************************************************************)
Keys == {"kA", "kB"}
NoKey == "none"

Npub(k) == [prefix |-> "npub1", key |-> k, decodes |-> TRUE]
BadNpub == [prefix |-> "npub1", key |-> NoKey, decodes |-> FALSE]
Raw(k) == [prefix |-> "", key |-> k, decodes |-> FALSE]

\* The identifiers a request of the concurrent specification may carry.
FewIdentifiers == {Raw("kA"), Npub("kA"), Raw("kB")}
\* The identifiers a request of the route specification may carry.
Identifiers == FewIdentifiers \cup {BadNpub}

\* serverPubkey.startsWith("npub1")
StartsWithNpub1(id) == id.prefix = "npub1"

\* (a decode that yields another key than the one encoded)
DecodeOther(id) ==
    [threw |-> FALSE, data |-> IF id.key = "kA" THEN "kB" ELSE "kA"]
\* decode(serverPubkey): the decoded key, or a throw
Decode(id) ==
    IF id.decodes THEN [threw |-> FALSE, data |-> id.key]
    ELSE [threw |-> TRUE, data |-> NoKey]

\* The first two lines of getInfo / makeInvoice / lookupInvoice.
Normalize(id) ==
    IF StartsWithNpub1(id) THEN Decode(id)
    ELSE [threw |-> FALSE, data |-> id.key]

(***************************************************************************)
(* The amount query parameter: url.searchParams.get("amount") is null or a *)
(* string, here a sequence of characters.                                  *)
(***************************************************************************)
Chars == {"0", "1", "5", "9", "-", "x"}

RECURSIVE StringsOfLen(_)
StringsOfLen(n) ==
    IF n = 0 THEN {<<>>}
    ELSE {Append(s, c) : s \in StringsOfLen(n - 1), c \in Chars}

StringsUpTo(n) == UNION {StringsOfLen(k) : k \in 0 .. n}

Str10000 == <<"1", "0", "0", "0", "0">>
Str200M == <<"2", "0", "0", "0", "0", "0", "0", "0", "0">>
StrInvalid == <<"i", "n", "v", "a", "l", "i", "d">>

NullParam == [present |-> FALSE, text |-> <<>>]
Param(s) == [present |-> TRUE, text |-> s]

\* The amounts a request of the concurrent specification may carry.
FewAmounts == {Param(<<"5", "0", "0">>), Param(Str10000)}

\* The amounts a request of the route specification may carry.
ManyAmounts ==
    {NullParam} \cup {Param(s) : s \in StringsUpTo(MaxAmountLen)}
        \cup {Param(Str10000), Param(Str200M), Param(StrInvalid)}

\* !amountMsat: null and the empty string are falsy
Falsy(p) == ~p.present \/ p.text = <<>>

(***************************************************************************)
(* parseInt(string) with no radix, as ECMAScript defines it: leading white *)
(* space is skipped, a sign is read, "0x"/"0X" selects radix 16, then the  *)
(* longest run of digits of the radix is read; no digit gives NaN.         *)
(***************************************************************************)
NaN == [nan |-> TRUE, val |-> 0]
Num(n) == [nan |-> FALSE, val |-> n]

DigitValue(c) ==
    CASE c = "0" -> 0 [] c = "1" -> 1 [] c = "2" -> 2 [] c = "3" -> 3
      [] c = "4" -> 4 [] c = "5" -> 5 [] c = "6" -> 6 [] c = "7" -> 7
      [] c = "8" -> 8 [] c = "9" -> 9
      [] c \in {"a", "A"} -> 10 [] c \in {"b", "B"} -> 11
      [] c \in {"c", "C"} -> 12 [] c \in {"d", "D"} -> 13
      [] c \in {"e", "E"} -> 14 [] c \in {"f", "F"} -> 15
      [] OTHER -> 99

IsDigit(c, radix) == DigitValue(c) < radix

RECURSIVE TrimStart(_)
TrimStart(s) ==
    IF s # <<>> /\ Head(s) = " " THEN TrimStart(Tail(s)) ELSE s

\* The value of the longest digit prefix of s, continuing from acc.
RECURSIVE DigitsValue(_, _, _)
DigitsValue(s, radix, acc) ==
    IF s = <<>> \/ ~IsDigit(Head(s), radix) THEN acc
    ELSE DigitsValue(Tail(s), radix, acc * radix + DigitValue(Head(s)))

ParseInt(text) ==
    LET s0 == TrimStart(text)
        neg == s0 # <<>> /\ Head(s0) = "-"
        s1 == IF s0 # <<>> /\ Head(s0) \in {"-", "+"} THEN Tail(s0) ELSE s0
        hex == Len(s1) >= 2 /\ s1[1] = "0" /\ s1[2] \in {"x", "X"}
        s2 == IF hex THEN Tail(Tail(s1)) ELSE s1
        radix == IF hex THEN 16 ELSE 10
    IN  IF s2 = <<>> \/ ~IsDigit(Head(s2), radix) THEN NaN
        ELSE LET v == DigitsValue(s2, radix, 0)
             IN  Num(IF neg THEN 0 - v ELSE v)

\* (a check that lets 0 through: amount < 0)
AmountRejectedBelowZero(amount) == amount.nan \/ amount.val < 0
\* isNaN(amount) || amount < 1
AmountRejected(amount) == amount.nan \/ amount.val < 1

\* (rounding to the nearest unit: Math.round(amount / 1000))
toNativeUnitsRounded(minorUnits) == (minorUnits + 500) \div 1000
\* Math.floor(amount / 1000)
toNativeUnits(minorUnits) == minorUnits \div 1000


(***************************************************************************)
(* Values thrown and returned.                                             *)
(***************************************************************************)
NoValue == [type |-> "undefined"]
\* A message is a sequence of pieces, so that a template string can put a
\* prefix before another message.
Returned(v) == [threw |-> FALSE, isError |-> FALSE, message |-> <<>>, value |-> v]
\* throw new Error(message), or an Error thrown by a library; every one
\* is an instance of Error and carries no other classification.
Thrown(message) ==
    [threw |-> TRUE, isError |-> TRUE, message |-> message, value |-> NoValue]
\* no outcome yet
Pending == Returned([type |-> "pending"])

DecodeError == <<"decode: invalid npub">>
ConnectError == <<"connect: peer unreachable">>
TransportError == <<"callTool: transport failure">>
TypeError == <<"TypeError: undefined is not an object">>
SyntaxError == <<"SyntaxError: JSON Parse error">>

(***************************************************************************)
(* What the remote answers.  get_info answers an object whose fields are   *)
(* all optional; make_invoice and lookup_invoice answer one text block     *)
(* holding JSON {result: ...}, when the remote keeps to the convention.    *)
(***************************************************************************)
Undefined == [defined |-> FALSE, val |-> 0]
Defined(n) == [defined |-> TRUE, val |-> n]

RemoteInfos ==
    { [shape |-> "bare", minSendable |-> Undefined, maxSendable |-> Undefined],
      [shape |-> "declared", minSendable |-> Defined(100),
                             maxSendable |-> Defined(10000000)],
      [shape |-> "minOnly", minSendable |-> Defined(200000000),
                            maxSendable |-> Undefined] }

\* The invoice the remote `peer` issues for `amount`, and its payment hash.
\* Both are JavaScript strings.
InvoiceOf(peer, amount) ==
    [type |-> "string", text |-> <<"lnbc", peer, amount>>]
PaymentHashOf(peer, amount) ==
    [type |-> "string", text |-> <<"hash", peer, amount>>]
SomeHash == PaymentHashOf("kA", 10)

\* A well-formed envelope: content[0].text is JSON with a result field.
Envelope(result) ==
    [shape |-> "result", content |-> "block", json |-> TRUE,
     hasResult |-> TRUE, result |-> result]
\* result.content is undefined
NoContent ==
    [shape |-> "noContent", content |-> "undefined", json |-> FALSE,
     hasResult |-> FALSE, result |-> NoValue]
\* content[0].text is not JSON
NotJson ==
    [shape |-> "notJson", content |-> "block", json |-> FALSE,
     hasResult |-> FALSE, result |-> NoValue]
\* the JSON has no result field
NoResultField ==
    [shape |-> "noResultField", content |-> "block", json |-> TRUE,
     hasResult |-> FALSE, result |-> NoValue]

\* What callTool can resolve to, for the call `c` on a connection to `peer`.
RemoteReplies(c, peer) ==
    CASE c.name = "get_info" -> RemoteInfos
      [] c.name = "make_invoice" ->
            { Envelope([type |-> "invoice",
                        invoice |-> InvoiceOf(peer, c.amount),
                        payment_hash |-> PaymentHashOf(peer, c.amount)]),
              NoContent, NotJson, NoResultField }
      [] OTHER ->
            { Envelope([type |-> "status", settled |-> TRUE]),
              NoContent, NotJson, NoResultField }

\* JSON.parse((result.content as any[])[0].text).result
ParseEnvelope(res) ==
    IF res.content = "undefined" THEN Thrown(TypeError)
    ELSE IF ~res.json THEN Thrown(SyntaxError)
    ELSE IF ~res.hasResult THEN Returned(NoValue)
    ELSE Returned(res.result)

(***************************************************************************)
(* Responses of the routes.                                                *)
(***************************************************************************)
NoResponse == [status |-> 0, kind |-> "none"]

\* Response.json({status: "ERROR", reason}, {status})
ErrorResponse(status, reason) ==
    [status |-> status, kind |-> "ERROR", reason |-> reason]

\* (a catch that answers with an empty reason)
ReasonOfNothing(thrown, fallback) == <<>>
\* error instanceof Error ? error.message : fallback
ReasonOf(thrown, fallback) ==
    IF thrown.isError THEN thrown.message ELSE <<fallback>>

\* x || d
OrDefault(x, d) == IF x.defined /\ x.val # 0 THEN x.val ELSE d

DefaultMinSendable == 1000
DefaultMaxSendable == 100000000

\* The response of /.well-known/lnurlp/:username to getInfo's outcome.
InfoResponse(id, outcome) ==
    IF outcome.threw THEN ErrorResponse(502, ReasonOf(outcome, "Failed to connect to server"))
    ELSE [status |-> 200, kind |-> "payRequest", callback |-> id,
          minSendable |->
              OrDefault(outcome.value.minSendable, DefaultMinSendable),
          maxSendable |->
              OrDefault(outcome.value.maxSendable, DefaultMaxSendable),
          tag |-> "payRequest"]

\* The response of /lnurlp/callback/:username to makeInvoice's outcome.
CallbackResponse(outcome) ==
    IF outcome.threw THEN ErrorResponse(502, ReasonOf(outcome, "Failed to create invoice"))
    ELSE [status |-> 200, kind |-> "invoice", pr |-> outcome.value,
          routes |-> <<>>]


(***************************************************************************)
(* The outcome of each service method once callTool has settled: `reply`   *)
(* is what callTool resolved to, or the Error it rejected with.            *)
(***************************************************************************)
\* `Failed to ...: ${error instanceof Error ? error.message : String(error)}`
Wrap(prefix, thrown) == Thrown(<<prefix>> \o thrown.message)

\* getInfo, lines 433-447: the result is returned as it came.
GetInfoOutcome(reply) ==
    IF reply.threw THEN Wrap("Failed to get info from server: ", reply)
    ELSE Returned(reply.value)

\* makeInvoice, lines 462-477: reading .invoice of undefined throws inside
\* the try block, so the catch wraps it like a transport failure.
MakeInvoiceOutcome(reply) ==
    LET parsed == IF reply.threw THEN reply ELSE ParseEnvelope(reply.value)
    IN  IF parsed.threw
        THEN Wrap("Failed to make invoice from server: ", parsed)
        ELSE IF parsed.value = NoValue
        THEN Wrap("Failed to make invoice from server: ", Thrown(TypeError))
        ELSE Returned([type |-> "invoiceResult",
                       invoice |-> parsed.value.invoice,
                       quoteId |-> parsed.value.payment_hash])

\* lookupInvoice, lines 489-505: parsed is returned, undefined included.
LookupInvoiceOutcome(reply) ==
    LET parsed == IF reply.threw THEN reply ELSE ParseEnvelope(reply.value)
    IN  IF parsed.threw
        THEN Wrap("Failed to lookup invoice from server: ", parsed)
        ELSE Returned(parsed.value)

ServiceOutcome(name, reply) ==
    CASE name = "get_info" -> GetInfoOutcome(reply)
      [] name = "make_invoice" -> MakeInvoiceOutcome(reply)
      [] OTHER -> LookupInvoiceOutcome(reply)

\* (routes that never answer)
ResponseToNothing(op, id, outcome) == NoResponse
\* What the caller of the service method makes of its outcome: the routes
\* answer; a direct caller of lookupInvoice has no response to give.
ResponseTo(op, id, outcome) ==
    CASE op = "info" -> InfoResponse(id, outcome)
      [] op = "callback" -> CallbackResponse(outcome)
      [] OTHER -> NoResponse


(***************************************************************************)
(* State.                                                                  *)
(***************************************************************************)
VARIABLES
    clients,    \* McpClientService.clients: server pubkey -> Client
    handle,     \* every Client created: its connection state, the server
                \* pubkey of its transport, the calls of close() it received
    pc,         \* where each request stands
    request,    \* what each request asked: operation, :username, ?amount
    local,      \* the service method's parameters, once it was entered
    client,     \* the service method's variable `client`
    call,       \* the callTool a request has issued
    result,     \* how the service method ended
    resp,       \* the response the route gave
    closer,     \* every closeAll invocation: its closePromises and stage
    exited,     \* process.exit was called
    arrivedDuring, \* observation: the requests in flight when one arrived
    callResult, \* observation: what each request's callTool settled to
    config      \* McpClientService.config, as the constructor received it

vars ==
    <<clients, handle, pc, request, local, client, call, result, resp,
      closer, exited, arrivedDuring, callResult, config>>

Ops == {"info", "callback", "lookup"}

NoRequest == [op |-> "none", ident |-> Raw(NoKey), amountMsat |-> NullParam]
NoLocal ==
    [name |-> "none", serverPubkey |-> NoKey, amount |-> 0,
     payment_hash |-> NoValue]
NoCall ==
    [name |-> "none", handle |-> NoHandle, amount |-> 0,
     payment_hash |-> NoValue]
\* clientPrivateKeyHex?: string
NotConfigured == [defined |-> FALSE, hex |-> ""]
PrivateKeyHex(s) == [defined |-> TRUE, hex |-> s]
\* The configurations the service may be constructed with: no key (the
\* environment variable unset, line 77), the empty string, a key.
Configs ==
    {[clientPrivateKeyHex |-> x] :
        x \in {NotConfigured, PrivateKeyHex(""), PrivateKeyHex("sk1")}}
\* x ? ... : ... on a string that may be undefined
Truthy(x) == x.defined /\ x.hex # ""

NoSigner == [generated |-> FALSE, hex |-> "", nonce |-> 0]
\* new PrivateKeySigner(hex) signs with the key given; new PrivateKeySigner()
\* generates a key, and no two generations give the same key: a generated
\* key is named by the construction that generated it.
PrivateKeySigner(x, nonce) ==
    IF x.defined THEN [generated |-> FALSE, hex |-> x.hex, nonce |-> 0]
    ELSE [generated |-> TRUE, hex |-> "", nonce |-> nonce]
\* (a service that makes one signer when first needed and keeps it)
NewSignerKept(cfg, nonce) ==
    IF Truthy(cfg.clientPrivateKeyHex)
    THEN PrivateKeySigner(cfg.clientPrivateKeyHex, 1)
    ELSE PrivateKeySigner(NotConfigured, 1)
\* Lines 396-398: the signer getClient makes for the client it creates.
NewSigner(cfg, nonce) ==
    IF Truthy(cfg.clientPrivateKeyHex)
    THEN PrivateKeySigner(cfg.clientPrivateKeyHex, nonce)
    ELSE PrivateKeySigner(NotConfigured, nonce)

NoClient ==
    [state |-> "absent", peer |-> NoKey, closeCalls |-> 0,
     signer |-> NoSigner]
IdleCloser ==
    [pc |-> "idle", via |-> "none", closing |-> {}, outcome |-> "none",
     logged |-> 0, during |-> {}]

\* private clients: Map<string, Client> = new Map()
EmptyMap == [k \in Keys |-> NoHandle]
\* this.clients.has(serverPubkey)
MapHas(map, k) == map[k] # NoHandle
\* (a getClient that forgets to store the client)
MapSetForgotten(map, k, h) == map
\* (a getClient that stores the client under another server's key)
MapSetElsewhere(map, k, h) ==
    [map EXCEPT ![IF k = "kA" THEN "kB" ELSE "kA"] = h]
\* this.clients.set(serverPubkey, client)
MapSet(map, k, h) == [map EXCEPT ![k] = h]
\* Array.from(this.clients.values())
MapValues(map) == {map[k] : k \in {x \in Keys : map[x] # NoHandle}}
\* (a closeAll that forgets to clear the map)
MapClearForgotten(map) == map
\* this.clients.clear()
MapClear(map) == EmptyMap

\* The service as new McpClientService(cfg) leaves it, for a cfg of `cfgs`.
Constructed(cfgs) ==
    /\ config \in cfgs
    /\ clients = EmptyMap
    /\ handle = [h \in Handles |-> NoClient]
    /\ pc = [r \in Reqs |-> "idle"]
    /\ request = [r \in Reqs |-> NoRequest]
    /\ local = [r \in Reqs |-> NoLocal]
    /\ client = [r \in Reqs |-> NoHandle]
    /\ call = [r \in Reqs |-> NoCall]
    /\ result = [r \in Reqs |-> Pending]
    /\ resp = [r \in Reqs |-> NoResponse]
    /\ closer = [c \in CloseCallers |-> IdleCloser]
    /\ exited = FALSE
    /\ arrivedDuring = [r \in Reqs |-> {}]
    /\ callResult = [r \in Reqs |-> Pending]

\* The server started without CTX_CLIENT_PRIVATE_KEY (line 77).
Init == Constructed({[clientPrivateKeyHex |-> NotConfigured]})

InFlight == {r \in Reqs : pc[r] \notin {"idle", "done"}}

\* A closeAll that found no client awaits Promise.all([]), which is settled
\* already, and a service method whose getClient has returned awaits a
\* settled promise too: the continuation is a microtask and runs before any
\* event (a request, a signal, the completion of a connect or of a call).
MicrotaskPending ==
    \/ \E c \in CloseCallers :
          closer[c].pc = "awaiting" /\ closer[c].closing = {}
    \/ \E r \in Reqs : pc[r] = "resolved"

(***************************************************************************)
(* The route's own work before it calls the service.                       *)
(***************************************************************************)
\* Lines 157-179: the 400 the callback route answers by itself, or none.
CallbackValidation(p) ==
    IF Falsy(p) THEN ErrorResponse(400, <<"Missing amount parameter">>)
    ELSE IF AmountRejected(ParseInt(p.text))
    THEN ErrorResponse(400, <<"Invalid amount parameter">>)
    ELSE NoResponse

\* Lines 181-189: the amount handed to makeInvoice.
amountSats(p) == toNativeUnits(ParseInt(p.text).val)

\* (a callback route that hands the amount over unconverted)
ServiceCallUnconverted(o, p) ==
    CASE o = "info" -> [NoLocal EXCEPT !.name = "get_info"]
      [] o = "callback" ->
            [NoLocal EXCEPT !.name = "make_invoice",
                            !.amount = ParseInt(p.text).val]
      [] OTHER ->
            [NoLocal EXCEPT !.name = "lookup_invoice",
                            !.payment_hash = SomeHash]
\* The service method a request calls, with its arguments as the caller
\* wrote them (serverPubkey still to be normalized).
ServiceCall(o, p) ==
    CASE o = "info" -> [NoLocal EXCEPT !.name = "get_info"]
      [] o = "callback" ->
            [NoLocal EXCEPT !.name = "make_invoice", !.amount = amountSats(p)]
      [] OTHER ->
            [NoLocal EXCEPT !.name = "lookup_invoice",
                            !.payment_hash = SomeHash]

(***************************************************************************)
(* A request arrives and runs to its first await.  For the callback route  *)
(* that is the validation of ?amount; then the service method normalizes   *)
(* the identifier and getClient looks the server pubkey up (lines 389-416):*)
(* on a hit it returns the stored client, on a miss it creates a client    *)
(* and awaits client.connect.                                              *)
(***************************************************************************)
Arrive(r, ids, amounts) ==
    /\ ~exited /\ ~MicrotaskPending
    /\ pc[r] = "idle"
    /\ \A q \in Reqs : q < r => pc[q] # "idle"  \* numbered as they arrive
    /\ \E o \in Ops, id \in ids :
       \E p \in (IF o = "callback" THEN amounts ELSE {NullParam}) :
          LET early == IF o = "callback" THEN CallbackValidation(p)
                       ELSE NoResponse
              n == Normalize(id)
              k == n.data
          IN  /\ request' = [request EXCEPT ![r] =
                    [op |-> o, ident |-> id, amountMsat |-> p]]
              /\ arrivedDuring' = [arrivedDuring EXCEPT ![r] = InFlight]
              /\ IF early # NoResponse
                 THEN \* answered 400 without entering the service
                      /\ resp' = [resp EXCEPT ![r] = early]
                      /\ pc' = [pc EXCEPT ![r] = "done"]
                      /\ UNCHANGED <<clients, handle, local, client, result>>
                 ELSE IF n.threw
                 THEN \* decode threw: the method rejects before getClient
                      /\ result' = [result EXCEPT ![r] = Thrown(DecodeError)]
                      /\ resp' = [resp EXCEPT ![r] =
                            ResponseTo(o, id, Thrown(DecodeError))]
                      /\ pc' = [pc EXCEPT ![r] = "done"]
                      /\ UNCHANGED <<clients, handle, local, client>>
                 ELSE /\ local' = [local EXCEPT ![r] =
                            [ServiceCall(o, p) EXCEPT !.serverPubkey = k]]
                      /\ IF MapHas(clients, k)
                         THEN /\ client' = [client EXCEPT ![r] = clients[k]]
                              /\ pc' = [pc EXCEPT ![r] = "resolved"]
                              /\ UNCHANGED handle
                         ELSE /\ handle' = [handle EXCEPT ![r] =
                                    [state |-> "connecting", peer |-> k,
                                     closeCalls |-> 0,
                                     signer |-> NewSigner(config, r)]]
                              /\ pc' = [pc EXCEPT ![r] = "connecting"]
                              /\ UNCHANGED client
                      /\ UNCHANGED <<clients, result, resp>>
    /\ UNCHANGED <<call, closer, exited, callResult, config>>


(***************************************************************************)
(* client.connect resolves: lines 416-421 store the client and return it.  *)
(***************************************************************************)
ConnectOk(r) ==
    /\ ~exited /\ ~MicrotaskPending
    /\ pc[r] = "connecting"
    /\ handle' = [handle EXCEPT ![r].state = "ready"]
    /\ clients' = MapSet(clients, local[r].serverPubkey, r)
    /\ client' = [client EXCEPT ![r] = r]
    /\ pc' = [pc EXCEPT ![r] = "resolved"]
    /\ UNCHANGED <<request, local, call, result, resp, closer, exited,
                   arrivedDuring, callResult, config>>

(***************************************************************************)
(* client.connect rejects: getClient throws at line 416, outside every try *)
(* block of the service, so the Error reaches the route's catch as it is.  *)
(***************************************************************************)
ConnectFail(r) ==
    /\ ~exited /\ ~MicrotaskPending
    /\ pc[r] = "connecting"
    /\ handle' = [handle EXCEPT ![r].state = "failed"]
    /\ result' = [result EXCEPT ![r] = Thrown(ConnectError)]
    /\ resp' = [resp EXCEPT ![r] =
          ResponseTo(request[r].op, request[r].ident, Thrown(ConnectError))]
    /\ pc' = [pc EXCEPT ![r] = "done"]
    /\ UNCHANGED <<clients, request, local, client, call, closer, exited,
                   arrivedDuring, callResult, config>>

(***************************************************************************)
(* `await this.getClient(...)` resumes: the method calls client.callTool.  *)
(***************************************************************************)
CallTool(r) ==
    /\ ~exited
    /\ pc[r] = "resolved"
    /\ call' = [call EXCEPT ![r] =
          [name |-> local[r].name, handle |-> client[r],
           amount |-> local[r].amount,
           payment_hash |-> local[r].payment_hash]]
    /\ pc' = [pc EXCEPT ![r] = "calling"]
    /\ UNCHANGED <<clients, handle, request, local, client, result, resp,
                   closer, exited, arrivedDuring, callResult, config>>

\* The shapes of reply a remote may give, and those the remotes of the
\* concurrent specification give.
Shapes ==
    {"bare", "declared", "minOnly", "result", "noContent", "notJson",
     "noResultField"}
FewShapes == {"bare", "result", "noContent"}

\* (a callTool that never settles)
RepliesNever(c, shapes) == {}
\* (a client that hands a call the reply to any call pending on it)
RepliesCrossed(c, shapes) ==
    {Thrown(TransportError)} \cup
        ( IF handle[c.handle].state = "ready"
          THEN {Returned(v) : v \in
                  {w \in UNION {RemoteReplies(call[q], handle[c.handle].peer) :
                                  q \in {x \in Reqs :
                                           /\ call[x].handle = c.handle
                                           /\ call[x].name = c.name}} :
                     w.shape \in shapes}}
          ELSE {} )
\* What callTool can settle to: a closed client cannot answer.
Replies(c, shapes) ==
    {Thrown(TransportError)} \cup
        ( IF handle[c.handle].state = "ready"
          THEN {Returned(v) : v \in
                  {w \in RemoteReplies(c, handle[c.handle].peer) :
                     w.shape \in shapes}}
          ELSE {} )

(***************************************************************************)
(* callTool settles: the method parses or wraps, the route answers.        *)
(***************************************************************************)
CallReturn(r, shapes) ==
    /\ ~exited /\ ~MicrotaskPending
    /\ pc[r] = "calling"
    /\ \E reply \in Replies(call[r], shapes) :
          LET outcome == ServiceOutcome(call[r].name, reply)
          IN  /\ callResult' = [callResult EXCEPT ![r] = reply]
              /\ result' = [result EXCEPT ![r] = outcome]
              /\ resp' = [resp EXCEPT ![r] =
                    ResponseTo(request[r].op, request[r].ident, outcome)]
    /\ pc' = [pc EXCEPT ![r] = "done"]
    /\ UNCHANGED <<clients, handle, request, local, client, call, closer,
                   exited, arrivedDuring, config>>

(***************************************************************************)
(* closeAll, lines 511-520.  The map over the values calls close() on      *)
(* every stored client at once; each promise gets a catch handler.         *)
(***************************************************************************)
\* client.close()
Close(h) == [h EXCEPT !.state = "closed", !.closeCalls = @ + 1]

\* (close promises without the catch handler)
CaughtNot(settled) == settled
\* .catch((error) => console.error(...)): a rejection becomes a fulfilment
Caught(settled) == "fulfilled"

\* Promise.all over promises settled as in `settlements`
PromiseAll(settlements) ==
    IF "rejected" \in settlements THEN "rejected" ELSE "fulfilled"

AwaitingClosers == {c \in CloseCallers : closer[c].pc = "awaiting"}

CloseAllStart(c) ==
    /\ ~exited /\ ~MicrotaskPending
    /\ closer[c].pc = "idle"
    /\ \A d \in CloseCallers : d < c => closer[d].pc # "idle"
    /\ closer' = [closer EXCEPT ![c] =
          [pc |-> "awaiting", via |-> "none",
           closing |-> MapValues(clients), outcome |-> "none",
           logged |-> 0, during |-> AwaitingClosers]]
    /\ handle' = [h \in Handles |->
          IF h \in MapValues(clients) THEN Close(handle[h]) ELSE handle[h]]
    /\ UNCHANGED <<clients, pc, request, local, client, call, result, resp,
                   exited, arrivedDuring, callResult, config>>

\* Every close() promise has settled, those of `failing` by rejecting, and
\* `await Promise.all(closePromises)` resumes: the map is cleared and the
\* array of promises is dropped.  The caller was a signal handler, which
\* goes on to process.exit(0) (lines 344-354), or it was not.
CloseAllFinish(c) ==
    /\ ~exited
    /\ closer[c].pc = "awaiting"
    /\ \E failing \in SUBSET closer[c].closing, via \in {"call", "signal"} :
       LET settlements ==
              {Caught(IF h \in failing THEN "rejected" ELSE "fulfilled") :
                 h \in closer[c].closing}
           all == PromiseAll(settlements)
       IN  IF all = "fulfilled"
           THEN /\ clients' = MapClear(clients)
                /\ closer' = [closer EXCEPT ![c].pc = "done",
                                            ![c].via = via,
                                            ![c].closing = {},
                                            ![c].outcome = "returned",
                                            ![c].logged =
                                                Cardinality(failing)]
                /\ exited' = (via = "signal")
           ELSE /\ closer' = [closer EXCEPT ![c].pc = "done",
                                            ![c].via = via,
                                            ![c].closing = {},
                                            ![c].outcome = "threw"]
                /\ UNCHANGED <<clients, exited>>
    /\ UNCHANGED <<handle, pc, request, local, client, call, result, resp,
                   arrivedDuring, callResult, config>>

(***************************************************************************)
(* The service under concurrent requests.                                  *)
(***************************************************************************)
Next ==
    \/ \E r \in Reqs :
          \/ Arrive(r, FewIdentifiers, FewAmounts)
          \/ ConnectOk(r)
          \/ ConnectFail(r)
          \/ CallTool(r)
          \/ CallReturn(r, FewShapes)
    \/ \E c \in CloseCallers :
          \/ CloseAllStart(c)
          \/ CloseAllFinish(c)

Spec == Init /\ [][Next]_vars

(***************************************************************************)
(* One request through the routes, over many amounts.                      *)
(***************************************************************************)
\* the first request alone
RouteReqs == {r \in Reqs : \A q \in Reqs : r <= q}

NextRoute ==
    \E r \in RouteReqs :
       \/ Arrive(r, Identifiers, ManyAmounts)
       \/ ConnectOk(r)
       \/ ConnectFail(r)
       \/ CallTool(r)
       \/ CallReturn(r, Shapes)

SpecRoute == Init /\ [][NextRoute]_vars

(***************************************************************************)
(* Properties of the registry.                                             *)
(***************************************************************************)
\* The number of handshakes (client.connect) begun with the server k.
Handshakes(k) ==
    Cardinality({h \in Handles :
                    handle[h].state # "absent" /\ handle[h].peer = k})

\* The connections to k whose handshake succeeded and that are not closed.
Live(k) == {h \in Handles : handle[h].state = "ready" /\ handle[h].peer = k}

\* The clients getClient has returned to the callers asking for k.
Obtained(k) ==
    {client[r] : r \in {q \in Reqs : local[q].serverPubkey = k
                                       /\ client[q] # NoHandle}}

\* No two calls for k were in flight together.
NonOverlapping(k) ==
    \A r \in Reqs :
       local[r].serverPubkey = k =>
          \A q \in arrivedDuring[r] : local[q].serverPubkey # k

NoCloseAllStarted == \A c \in CloseCallers : closer[c].pc = "idle"
NoHandshakeFailed(k) ==
    \A h \in Handles : handle[h].peer = k => handle[h].state # "failed"

\* The steps in which the closeAll invocation c starts and returns.
Starts(c) == closer[c].pc = "idle" /\ closer'[c].pc = "awaiting"
Finishes(c) == closer[c].pc = "awaiting" /\ closer'[c].pc = "done"

\* C1: getClient calls for one server, concurrent ones included, make one
\* handshake and all receive the same client (no closeAll, no failed connect).
C1_ConcurrentSingleHandshake ==
    \A k \in Keys :
       (NoCloseAllStarted /\ NoHandshakeFailed(k)) =>
          /\ Handshakes(k) <= 1
          /\ Cardinality(Obtained(k)) <= 1

\* C2: in every state, every server has at most one live connection.
C2_OneLiveConnectionPerIdentity ==
    \A k \in Keys : Cardinality(Live(k)) <= 1

\* C3: calls for one server that do not overlap, with no closeAll and no
\* failed handshake, make exactly one handshake and receive the same client.
C3_SequentialSingleHandshake ==
    \A k \in Keys :
       (NonOverlapping(k) /\ NoCloseAllStarted /\ NoHandshakeFailed(k)) =>
          /\ Handshakes(k) <= 1
          /\ Cardinality(Obtained(k)) <= 1
          /\ (Obtained(k) # {} => Handshakes(k) = 1)

\* The info request, then its callback request, served by one client.
C3_Witness ==
    \E r1, r2 \in Reqs, k \in Keys :
       /\ r1 < r2
       /\ request[r1].op = "info" /\ request[r2].op = "callback"
       /\ local[r1].serverPubkey = k /\ local[r2].serverPubkey = k
       /\ pc[r1] = "done" /\ pc[r2] = "done"
       /\ arrivedDuring[r2] = {}
       /\ client[r1] # NoHandle /\ client[r2] = client[r1]
       /\ NoCloseAllStarted
       /\ Handshakes(k) = 1

\* C4: when a handshake fails, the registry holds no entry for that server
\* afterwards.
C4_FailedHandshakeLeavesNoEntry ==
    [][\A r \in Reqs :
          (pc[r] = "connecting" /\ handle'[r].state = "failed") =>
             ~MapHas(clients', local[r].serverPubkey)]_vars

\* C5: closeAll calls close on every client of the registry, returns without
\* throwing whichever of the closes fail, and leaves the registry empty.
C5_CloseAllClosesEveryHandle ==
    [][\A c \in CloseCallers :
          /\ Starts(c) =>
                \A h \in MapValues(clients) :
                   /\ handle'[h].closeCalls = handle[h].closeCalls + 1
                   /\ handle'[h].state = "closed"
          /\ Finishes(c) =>
                /\ closer'[c].outcome = "returned"
                /\ clients' = EmptyMap]_vars

\* A closeAll over two clients returned although one close had failed.
C5_Witness ==
    \E c \in CloseCallers :
       /\ closer[c].pc = "done" /\ closer[c].outcome = "returned"
       /\ closer[c].logged = 1
       /\ \A d \in CloseCallers \ {c} : closer[d].pc = "idle"
       /\ Cardinality({h \in Handles : handle[h].closeCalls = 1}) >= 2
       /\ clients = EmptyMap

\* C6: closeAll on an empty registry returns without closing anything, and
\* closeAll calls that follow one another close no client twice.
C6_CloseAllIdempotent ==
    [][/\ \A c \in CloseCallers :
             /\ (Starts(c) /\ clients = EmptyMap) =>
                   handle' = handle /\ clients' = EmptyMap
             /\ (Finishes(c) /\ clients = EmptyMap) =>
                   /\ closer'[c].outcome = "returned"
                   /\ clients' = EmptyMap
                   /\ handle' = handle
       /\ (\A c \in CloseCallers : closer'[c].during = {}) =>
             \A h \in Handles : handle'[h].closeCalls <= 1]_vars

\* Two closeAll calls, one after the other, after a client was stored.
C6_Witness ==
    /\ \A c \in CloseCallers :
          /\ closer[c].pc = "done" /\ closer[c].outcome = "returned"
          /\ closer[c].during = {}
    /\ \E h \in Handles : handle[h].closeCalls = 1
    /\ clients = EmptyMap

(***************************************************************************)
(* Properties of the callback route's amount.                              *)
(***************************************************************************)
\* C7: every make_invoice call carries a native amount of at least 1.
C7_InvoiceAmountAtLeastOne ==
    \A r \in Reqs : call[r].name = "make_invoice" => call[r].amount >= 1

\* C8: a missing amount, "invalid" and 0 are answered 400 with no service
\* call and the registry untouched; 10000 is forwarded as 10 and succeeds.
C8_AmountValidation ==
    \A r \in Reqs :
       request[r].op = "callback" =>
          /\ request[r].amountMsat
                \in {NullParam, Param(StrInvalid), Param(<<"0">>)} =>
                /\ pc[r] = "done"
                /\ resp[r].status = 400 /\ resp[r].kind = "ERROR"
                /\ resp[r].reason =
                      IF request[r].amountMsat = NullParam
                      THEN <<"Missing amount parameter">>
                      ELSE <<"Invalid amount parameter">>
                /\ local[r] = NoLocal /\ call[r] = NoCall
                /\ handle[r] = NoClient /\ clients = EmptyMap
          /\ request[r].amountMsat = Param(Str10000) =>
                /\ resp[r].status # 400
                /\ ~Normalize(request[r].ident).threw =>
                      local[r].name = "make_invoice" /\ local[r].amount = 10
                /\ call[r] # NoCall =>
                      call[r].name = "make_invoice" /\ call[r].amount = 10
                /\ (pc[r] = "done" /\ ~result[r].threw) =>
                      /\ resp[r].status = 200
                      /\ resp[r].pr.invoice =
                            InvoiceOf(local[r].serverPubkey, 10)

\* An amount of 0 was answered 400 before the service was entered.
C8_Witness ==
    \E r \in Reqs :
       /\ request[r].op = "callback"
       /\ request[r].amountMsat = Param(<<"0">>)
       /\ pc[r] = "done"
       /\ resp[r] = ErrorResponse(400, <<"Invalid amount parameter">>)
       /\ call[r] = NoCall

\* C9: the amount handed to makeInvoice is floor(amount / 1000): 10000
\* gives 10, 999 gives 0, 1000 gives 1, and n lies in [1000 q, 1000 (q+1)).
C9_ToNativeUnitsIsFloor ==
    \A r \in Reqs :
       local[r].name = "make_invoice" =>
          LET n == ParseInt(request[r].amountMsat.text).val
              q == local[r].amount
          IN  /\ n >= 1
              /\ q * 1000 <= n /\ n < (q + 1) * 1000
              /\ request[r].amountMsat = Param(Str10000) => q = 10
              /\ request[r].amountMsat = Param(<<"9", "9", "9">>) => q = 0
              /\ request[r].amountMsat = Param(<<"1", "0", "0", "0">>) =>
                    q = 1

\* 999 was converted to 0 and 0 was sent to the remote.
C9_Witness ==
    \E r \in Reqs :
       /\ request[r].amountMsat = Param(<<"9", "9", "9">>)
       /\ local[r].name = "make_invoice" /\ local[r].amount = 0
       /\ call[r].name = "make_invoice" /\ call[r].amount = 0

\* C10: a callback whose amount is a number of at least 1 outside
\* [minSendable, maxSendable] is answered 400 "Amount out of range" and no
\* invoice is requested.
C10_AmountOutOfRangeRejected ==
    \A r \in Reqs :
       ( /\ request[r].op = "callback"
         /\ ~Falsy(request[r].amountMsat)
         /\ ~AmountRejected(ParseInt(request[r].amountMsat.text))
         /\ \/ ParseInt(request[r].amountMsat.text).val < DefaultMinSendable
            \/ ParseInt(request[r].amountMsat.text).val > DefaultMaxSendable )
       => /\ pc[r] = "done"
          /\ resp[r].status = 400 /\ resp[r].kind = "ERROR"
          /\ resp[r].reason = <<"Amount out of range">>
          /\ call[r] = NoCall

(***************************************************************************)
(* Properties of the responses.                                            *)
(***************************************************************************)
\* C11: the pr of a successful callback response is the invoice string the
\* remote returned, and routes is the empty list.
C11_PrIsInvoiceString ==
    \A r \in Reqs :
       (request[r].op = "callback" /\ pc[r] = "done" /\ resp[r].status = 200)
       => /\ resp[r].pr = InvoiceOf(local[r].serverPubkey, call[r].amount)
          /\ resp[r].routes = <<>>

\* A reply that lacks the envelope {content: [{text: JSON of {result}}]}.
Malformed(res) == res.shape \in {"noContent", "notJson", "noResultField"}

\* What the service itself says about a failure: the Error it throws is a
\* plain Error, told from another only by the prefix it puts in the message.
ErrorKind(thrown) == Head(thrown.message)

\* C12: a make_invoice or lookup_invoice reply without the envelope makes
\* the method fail, with an error of another kind than a transport failure
\* gives; it never makes it return a value.
C12_MalformedReplyIsDistinctFailure ==
    \A r \in Reqs :
       ( /\ pc[r] = "done"
         /\ call[r].name \in {"make_invoice", "lookup_invoice"}
         /\ ~callResult[r].threw
         /\ Malformed(callResult[r].value) )
       => /\ result[r].threw
          /\ ErrorKind(result[r]) #
                ErrorKind(ServiceOutcome(call[r].name,
                                         Thrown(TransportError)))

\* The identifier has the npub1 prefix and does not decode.
Undecodable(id) == StartsWithNpub1(id) /\ Decode(id).threw

\* C13: an npub1 identifier that does not decode is rejected as a validation
\* error (status 400), with no handshake and no registry entry.
C13_UndecodableIdentifierIsValidationError ==
    \A r \in Reqs :
       (pc[r] # "idle" /\ Undecodable(request[r].ident)) =>
          /\ pc[r] = "done"
          /\ handle[r] = NoClient
          /\ \A k \in Keys : ~MapHas(clients, k)
          /\ request[r].op \in {"info", "callback"} =>
                resp[r].kind = "ERROR" /\ resp[r].status = 400

(***************************************************************************)
(* Properties of the identifiers.                                          *)
(***************************************************************************)
\* The two requests name one key, one as npub and one as the raw key.
TwoEncodings(r1, r2) ==
    /\ request[r1].ident.key = request[r2].ident.key
    /\ ~StartsWithNpub1(request[r1].ident)
    /\ StartsWithNpub1(request[r2].ident)

\* C14: the npub form and the raw form of a key normalize to the same server
\* pubkey, every registry key is such a pubkey, and requests that use the
\* two forms one after the other share one client and one handshake.
C14_EncodingsShareOneEntry ==
    /\ \A k \in Keys :
          /\ Normalize(Npub(k)) = Normalize(Raw(k))
          /\ ~Normalize(Raw(k)).threw /\ Normalize(Raw(k)).data = k
    /\ \A r \in Reqs :
          local[r] # NoLocal =>
             /\ local[r].serverPubkey \in Keys
             /\ local[r].serverPubkey = request[r].ident.key
    /\ \A k \in Keys :
          MapHas(clients, k) => handle[clients[k]].peer = k
    /\ \A r1, r2 \in Reqs :
          ( /\ TwoEncodings(r1, r2)
            /\ client[r1] # NoHandle /\ client[r2] # NoHandle
            /\ NonOverlapping(request[r1].ident.key)
            /\ NoCloseAllStarted
            /\ NoHandshakeFailed(request[r1].ident.key) )
          => /\ client[r1] = client[r2]
             /\ Handshakes(request[r1].ident.key) = 1

\* A raw-key request and an npub request for the same key, served one
\* after the other by one client.
C14_Witness ==
    \E r1, r2 \in Reqs :
       /\ TwoEncodings(r1, r2)
       /\ pc[r1] = "done" /\ pc[r2] = "done"
       /\ arrivedDuring[r1] = {} /\ arrivedDuring[r2] = {}
       /\ client[r1] # NoHandle /\ client[r2] = client[r1]
       /\ NoCloseAllStarted
       /\ Handshakes(request[r1].ident.key) = 1

(***************************************************************************)
(* Properties of the failures.                                             *)
(***************************************************************************)
\* The context each service method puts before the cause of a failure.
OperationContext(name) ==
    CASE name = "get_info" -> "Failed to get info from server: "
      [] name = "make_invoice" -> "Failed to make invoice from server: "
      [] OTHER -> "Failed to lookup invoice from server: "

\* C15: every failure of a service method, of the handshake as of the
\* remote call, reaches the caller wrapped: the method's context and the
\* server's identity first, the cause after them.
C15_EveryFailureIsWrapped ==
    \A r \in Reqs :
       ( /\ pc[r] = "done" /\ result[r].threw
         /\ ~Undecodable(request[r].ident) ) =>
          /\ Len(result[r].message) >= 2
          /\ Head(result[r].message) =
                OperationContext(ServiceCall(request[r].op,
                                             request[r].amountMsat).name)
          /\ \E i \in 1 .. Len(result[r].message) :
                result[r].message[i] = request[r].ident.key

\* The request was refused by the route or its service method threw.
Failed(r) ==
    \/ request[r].op = "callback"
          /\ CallbackValidation(request[r].amountMsat) # NoResponse
    \/ result[r].threw

\* The routes' requests that have been answered.
Answered == {r \in Reqs : pc[r] = "done" /\ request[r].op \in {"info", "callback"}}

\* Every answered request has the body its outcome calls for.
BodiesWellFormed ==
    \A r \in Answered :
       IF Failed(r)
       THEN /\ DOMAIN resp[r] = {"status", "kind", "reason"}
            /\ resp[r].kind = "ERROR"
            /\ resp[r].status >= 400
            /\ resp[r].reason # <<>>
            /\ \A i \in 1 .. Len(resp[r].reason) : resp[r].reason[i] # ""
       ELSE /\ resp[r].status = 200
            /\ resp[r].kind \in {"payRequest", "invoice"}
            /\ "reason" \notin DOMAIN resp[r]
            /\ resp[r].kind = "payRequest" => "callback" \in DOMAIN resp[r]
            /\ resp[r].kind = "invoice" => "pr" \in DOMAIN resp[r]

\* C16: a request is answered once; a failed one with {status: "ERROR",
\* reason} alone, the reason not empty, a successful one with a success
\* payload that is no ERROR.
C16_ErrorEnvelopeOrSuccess ==
    [][/\ \A r \in Reqs : resp[r] # NoResponse => resp'[r] = resp[r]
       /\ BodiesWellFormed']_vars

\* A request whose service call failed was answered with an ERROR body.
C16_Witness ==
    \E r \in Answered :
       /\ result[r].threw
       /\ resp[r].kind = "ERROR" /\ resp[r].status = 502
       /\ Len(resp[r].reason) = 2

\* The request carries a parameter the program can refuse by itself.
ValidationError(r) ==
    \/ request[r].op = "callback"
          /\ CallbackValidation(request[r].amountMsat) # NoResponse
    \/ Undecodable(request[r].ident)

\* The handshake or the remote call failed.
RemoteFailure(r) == result[r].threw /\ ~Undecodable(request[r].ident)

\* C17: validation errors are answered 400, remote failures 404 or 502,
\* and 500 only with the reason "Internal server error".
C17_StatusByErrorKind ==
    \A r \in Answered :
       /\ ValidationError(r) => resp[r].status = 400
       /\ (~ValidationError(r) /\ RemoteFailure(r)) =>
             resp[r].status \in {404, 502}
       /\ resp[r].status = 500 =>
             resp[r].reason = <<"Internal server error">>

\* The identifier of the request led to no payee: no server answered the
\* handshake for it.
PayeeUnknown(r) == handle[r].state = "failed"

\* C18: a request for an identifier that resolves to no payee is answered
\* 404 with an ERROR body, "User not found" on the callback route.
C18_UnknownPayeeIs404 ==
    \A r \in Answered :
       PayeeUnknown(r) =>
          /\ resp[r].kind = "ERROR"
          /\ resp[r].status = 404
          /\ request[r].op = "callback" =>
                resp[r].reason = <<"User not found">>

(***************************************************************************)
(* Properties of the payment information.                                  *)
(***************************************************************************)
\* C19: the info response carries 1000 / 100000000 where the remote's info
\* omits minSendable / maxSendable and the remote's value where it declares
\* one, and its band satisfies 1 <= minSendable <= maxSendable.
C19_SendableBand ==
    \A r \in Answered :
       (request[r].op = "info" /\ resp[r].status = 200) =>
          LET info == callResult[r].value
          IN  /\ resp[r].minSendable =
                    IF info.minSendable.defined THEN info.minSendable.val
                    ELSE 1000
              /\ resp[r].maxSendable =
                    IF info.maxSendable.defined THEN info.maxSendable.val
                    ELSE 100000000
              /\ 1 <= resp[r].minSendable
              /\ resp[r].minSendable <= resp[r].maxSendable

(***************************************************************************)
(* Properties of the shutdown.                                             *)
(***************************************************************************)
\* C20: the process exits only after a signal handler's closeAll has
\* returned, and at exit no client whose handshake succeeded is still open.
C20_ExitAfterAllClosed ==
    exited =>
       /\ \E c \in CloseCallers :
             /\ closer[c].pc = "done" /\ closer[c].via = "signal"
             /\ closer[c].outcome = "returned"
       /\ \A h \in Handles : handle[h].state # "ready"

(***************************************************************************)
(* Properties of the registry's entries and of the clients' lifecycle.     *)
(***************************************************************************)
\* The clients the registry holds.
Stored == MapValues(clients)

\* C21: every client stored in the registry is ready; none is connecting
\* and none is one whose connect failed.
C21_StoredHandlesAreReady ==
    \A h \in Stored : handle[h].state = "ready"

\* The step is getClient storing the client it has connected for k.
Inserts(r, k) ==
    /\ pc[r] = "connecting" /\ pc'[r] = "resolved"
    /\ local[r].serverPubkey = k
    /\ clients'[k] = r

\* C22: the registry changes only by getClient storing the client of the
\* requested server and by closeAll clearing; a getClient for one server
\* leaves the other entries alone, and an entry is given up only by closeAll.
C22_RegistryFrame ==
    [][\A k \in Keys :
          clients'[k] # clients[k] =>
             \/ /\ ~MapHas(clients, k)
                /\ \E r \in Reqs : Inserts(r, k)
                /\ \A j \in Keys \ {k} : clients'[j] = clients[j]
             \/ /\ \E c \in CloseCallers : Finishes(c)
                /\ clients' = EmptyMap]_vars

\* The changes of state a client may go through.
Lifecycle ==
    { <<"absent", "connecting">>, <<"connecting", "ready">>,
      <<"connecting", "failed">>, <<"ready", "closed">> }

\* C23: a client moves only along connecting -> ready -> closed; it is
\* ready only after its handshake succeeded, and close is called on it
\* only while it is ready, so never a second time.
C23_HandleLifecycle ==
    [][\A h \in Handles :
          /\ handle'[h].state # handle[h].state =>
                <<handle[h].state, handle'[h].state>> \in Lifecycle
          /\ handle'[h].closeCalls # handle[h].closeCalls =>
                handle[h].state = "ready" /\ handle'[h].state = "closed"]_vars

(***************************************************************************)
(* Properties of the remote calls.                                         *)
(***************************************************************************)
\* C24: getClient returns what the registry holds for the request's
\* normalized identifier; the request's call is issued on that client,
\* whose handshake was made with that very server; there is one call per
\* request, and a request that has ended calls nothing more.
C24_CallOnResolvedHandle ==
    [][\A r \in Reqs :
          /\ client'[r] # client[r] =>
                /\ local'[r].serverPubkey = Normalize(request'[r].ident).data
                /\ clients'[local'[r].serverPubkey] = client'[r]
          /\ call'[r] # call[r] =>
                /\ call[r] = NoCall
                /\ client[r] # NoHandle
                /\ call'[r].handle = client[r]
                /\ handle[client[r]].peer = Normalize(request[r].ident).data
                /\ handle[client[r]].state \in {"ready", "closed"}
                /\ call'[r].name =
                      ServiceCall(request[r].op, request[r].amountMsat).name
          /\ pc[r] = "done" =>
                /\ pc'[r] = "done"
                /\ call'[r] = call[r] /\ client'[r] = client[r]]_vars

\* A request borrowed the client another request had stored, made its one
\* call on it and ended.
C24_Witness ==
    \E r1, r2 \in Reqs :
       /\ r1 # r2
       /\ client[r2] = r1
       /\ call[r2].handle = r1
       /\ handle[r1].peer = Normalize(request[r2].ident).data
       /\ pc[r2] = "done" /\ callResult[r2] # Pending

(***************************************************************************)
(* Two requests for different servers, the first of which never hears from *)
(* its server again: its connect, or its call, never settles.  The second  *)
(* request's server does answer (fairness on the second request's steps).  *)
(***************************************************************************)
HungReq == 1
OtherReq == 2

NextHung ==
    \/ Arrive(HungReq, {Raw("kA"), Npub("kA")}, FewAmounts)
    \/ ConnectOk(HungReq)
    \/ CallTool(HungReq)
    \/ Arrive(OtherReq, {Raw("kB")}, FewAmounts)
    \/ ConnectOk(OtherReq)
    \/ ConnectFail(OtherReq)
    \/ CallTool(OtherReq)
    \/ CallReturn(OtherReq, Shapes)

OtherSteps ==
    \/ ConnectOk(OtherReq)
    \/ ConnectFail(OtherReq)
    \/ CallTool(OtherReq)
    \/ CallReturn(OtherReq, Shapes)

\* The first request's own step, the call it makes once it has its client,
\* is taken; what never happens is its server's answer.
SpecHung ==
    /\ Init /\ [][NextHung]_vars
    /\ WF_vars(OtherSteps)
    /\ WF_vars(CallTool(HungReq))

\* C25: a request for one server whose handshake or call never returns
\* does not keep a concurrent request for another server from obtaining its
\* client, making its call and being answered.
C25_OtherIdentityProceeds ==
    (pc[OtherReq] \notin {"idle", "done"}) ~> (pc[OtherReq] = "done")

\* The first request still waits for its server; the second has its client,
\* has called and has been answered 200.
C25_Witness ==
    /\ pc[HungReq] \in {"connecting", "calling"}
    /\ pc[OtherReq] = "done"
    /\ HungReq \in arrivedDuring[OtherReq]
    /\ client[OtherReq] = OtherReq /\ handle[OtherReq].peer = "kB"
    /\ resp[OtherReq].status = 200

(***************************************************************************)
(* Requests whose servers always answer: every connect and every call      *)
(* settles at last (weak fairness on each request's continuations).  No    *)
(* shutdown is requested.                                                  *)
(***************************************************************************)
Settles(r) ==
    \/ ConnectOk(r)
    \/ ConnectFail(r)
    \/ CallTool(r)
    \/ CallReturn(r, FewShapes)

NextLive ==
    \E r \in Reqs :
       \/ Arrive(r, FewIdentifiers, FewAmounts)
       \/ ConnectOk(r)
       \/ ConnectFail(r)
       \/ CallTool(r)
       \/ CallReturn(r, FewShapes)

SpecLive ==
    Init /\ [][NextLive]_vars /\ \A r \in Reqs : WF_vars(Settles(r))

\* C26: when every handshake and every call settles, every request of a
\* route is answered, once; and nothing but the settling of its connect or
\* of its call ends a request's wait: there is no timeout.
C26_EveryRequestAnswered ==
    /\ \A r \in Reqs :
          (pc[r] # "idle") ~>
             /\ pc[r] = "done"
             /\ request[r].op \in {"info", "callback"} =>
                   resp[r] # NoResponse
    /\ [][\A r \in Reqs :
             /\ resp[r] # NoResponse => resp'[r] = resp[r]
             /\ (pc[r] = "connecting" /\ pc'[r] # "connecting") =>
                   handle'[r].state \in {"ready", "failed"}
             /\ (pc[r] = "calling" /\ pc'[r] # "calling") =>
                   callResult'[r] # Pending]_vars

\* Both requests were answered, one of them after a failed handshake.
C26_Witness ==
    /\ \A r \in Reqs :
          /\ pc[r] = "done"
          /\ request[r].op \in {"info", "callback"}
          /\ resp[r] # NoResponse
    /\ \E r \in Reqs : handle[r].state = "failed" /\ resp[r].status = 502
    /\ \E r \in Reqs : resp[r].status = 200

\* The reply is a well-formed envelope.
Enveloped(r) ==
    /\ pc[r] = "done" /\ call[r] # NoCall
    /\ ~callResult[r].threw
    /\ callResult[r].value.shape = "result"

\* C27: get_info is called with no arguments and its result returned as it
\* came; make_invoice is called with the converted amount and returns the
\* invoice and payment_hash of the envelope's result; lookup_invoice is
\* called with the payment hash given and returns the envelope's result.
C27_RemoteContract ==
    \A r \in Reqs :
       call[r] # NoCall =>
          CASE request[r].op = "info" ->
                  /\ call[r].name = "get_info"
                  /\ call[r].amount = NoCall.amount
                  /\ call[r].payment_hash = NoCall.payment_hash
                  /\ (pc[r] = "done" /\ ~callResult[r].threw) =>
                        result[r] = Returned(callResult[r].value)
            [] request[r].op = "callback" ->
                  /\ call[r].name = "make_invoice"
                  /\ call[r].amount = amountSats(request[r].amountMsat)
                  /\ call[r].payment_hash = NoCall.payment_hash
                  /\ Enveloped(r) =>
                        /\ ~result[r].threw
                        /\ result[r].value.invoice =
                              callResult[r].value.result.invoice
                        /\ result[r].value.quoteId =
                              callResult[r].value.result.payment_hash
            [] OTHER ->
                  /\ call[r].name = "lookup_invoice"
                  /\ call[r].amount = NoCall.amount
                  /\ call[r].payment_hash = SomeHash
                  /\ Enveloped(r) =>
                        result[r] = Returned(callResult[r].value.result)

\* lookupInvoice returned the result of the remote's envelope.
C27_Witness ==
    \E r \in Reqs :
       /\ request[r].op = "lookup"
       /\ Enveloped(r)
       /\ call[r].payment_hash = SomeHash
       /\ result[r] = Returned(callResult[r].value.result)

(***************************************************************************)
(* Properties of requests interleaved with closeAll.                       *)
(***************************************************************************)
\* No getClient is awaiting its connect and no closeAll its closes.
Quiescent ==
    /\ \A r \in Reqs : pc[r] # "connecting"
    /\ \A c \in CloseCallers : closer[c].pc # "awaiting"

\* C28: in a quiescent state every client whose handshake succeeded is in
\* the registry or closed.
C28_NoOrphanedConnection ==
    Quiescent =>
       \A h \in Handles : handle[h].state = "ready" => h \in Stored


\* C29: no call is issued on a client on which close has been called, and
\* getClient returns no such client.
C29_NoUseOfClosedHandle ==
    [][\A r \in Reqs :
          /\ client'[r] # client[r] => handle'[client'[r]].closeCalls = 0
          /\ call'[r] # call[r] => handle[client[r]].closeCalls = 0]_vars


\* A closeAll has returned and none is in progress.
CloseAllCompleted ==
    /\ \E c \in CloseCallers : closer[c].pc = "done"
    /\ AwaitingClosers = {}

\* C30: after closeAll has returned, getClient returns no closed client:
\* for a server whose client was closed it connects anew and returns the
\* new, ready client.
C30_UsableAfterCloseAll ==
    [][\A r \in Reqs :
          /\ (CloseAllCompleted /\ pc[r] = "idle"
                /\ pc'[r] \in {"connecting", "resolved"}) =>
                LET k == local'[r].serverPubkey
                IN  /\ (\E h \in Handles : handle[h].peer = k
                                            /\ handle[h].state = "closed"
                                            /\ clients[k] = NoHandle) =>
                          /\ pc'[r] = "connecting"
                          /\ handle'[r] = [state |-> "connecting", peer |-> k,
                                           closeCalls |-> 0,
                                           signer |-> handle'[r].signer]
                    /\ client'[r] # NoHandle =>
                          handle'[client'[r]].state = "ready"
          /\ (CloseAllCompleted /\ pc[r] = "connecting"
                /\ pc'[r] = "resolved") =>
                /\ client'[r] = r
                /\ handle'[r].state = "ready" /\ handle'[r].closeCalls = 0
                /\ clients'[local[r].serverPubkey] = r]_vars

\* A server's client was closed by closeAll; a later request for that
\* server connected anew and was answered 200.
C30_Witness ==
    \E r1, r2 \in Reqs :
       /\ r1 # r2
       /\ handle[r1].peer = handle[r2].peer
       /\ handle[r1].state = "closed"
       /\ CloseAllCompleted
       /\ arrivedDuring[r2] = {}
       /\ client[r2] = r2 /\ handle[r2].state = "ready"
       /\ pc[r2] = "done" /\ resp[r2].status = 200

(***************************************************************************)
(* Properties of interleaved requests.                                     *)
(***************************************************************************)
\* The server a request names, once its identifier is normalized.
OwnServer(r) == Normalize(request[r].ident).data

\* The call a request's own operation, identifier and amount ask for.
OwnCall(r) ==
    [ServiceCall(request[r].op, request[r].amountMsat)
        EXCEPT !.serverPubkey = OwnServer(r)]

\* What the remote of the request's own identifier can answer to the call
\* made for the request's own amount, or that call's own failure.
OwnReplies(r) ==
    {Thrown(TransportError)} \cup
        {Returned(v) : v \in RemoteReplies(OwnCall(r), OwnServer(r))}

\* The requests that were in flight together at some moment.
Interleaved(r1, r2) ==
    r1 # r2 /\ (r1 \in arrivedDuring[r2] \/ r2 \in arrivedDuring[r1])

\* C31: a request's call carries the tool, the server and the amount of
\* that request alone; what its callTool settles to is an answer of its own
\* server to that call, or that call's failure; its response is computed
\* from that outcome alone; and no step of one request changes the call,
\* the outcome or the response of another.
C31_ResponseFromOwnCall ==
    /\ [](\A r \in Reqs :
            /\ local[r] \in {NoLocal, OwnCall(r)}
            /\ call[r] # NoCall =>
                  /\ call[r].name = OwnCall(r).name
                  /\ call[r].amount = OwnCall(r).amount
                  /\ call[r].payment_hash = OwnCall(r).payment_hash
                  /\ handle[call[r].handle].peer = OwnServer(r)
            /\ callResult[r] # Pending =>
                  /\ call[r] # NoCall
                  /\ callResult[r] \in OwnReplies(r)
                  /\ result[r] = ServiceOutcome(call[r].name, callResult[r])
                  /\ resp[r] =
                        ResponseTo(request[r].op, request[r].ident, result[r])
            /\ (request[r].op = "callback" /\ resp[r].status = 200) =>
                  resp[r].pr.invoice =
                     InvoiceOf(OwnServer(r), amountSats(request[r].amountMsat)))
    /\ [][\A r, q \in Reqs :
            (r # q /\ pc'[q] # pc[q]) =>
               /\ request'[r] = request[r] /\ local'[r] = local[r]
               /\ client'[r] = client[r] /\ call'[r] = call[r]
               /\ callResult'[r] = callResult[r]
               /\ result'[r] = result[r] /\ resp'[r] = resp[r]]_vars

\* Two requests for the same server were in flight together, made their
\* calls on the one stored client with different amounts, and each was
\* answered with the invoice for its own amount.
C31_Witness ==
    \E r1, r2 \in Reqs :
       /\ Interleaved(r1, r2)
       /\ request[r1].op = "callback" /\ request[r2].op = "callback"
       /\ OwnServer(r1) = OwnServer(r2)
       /\ call[r1].handle = call[r2].handle
       /\ call[r1].amount # call[r2].amount
       /\ resp[r1].status = 200 /\ resp[r2].status = 200
       /\ resp[r1].pr.invoice = InvoiceOf(OwnServer(r1), call[r1].amount)
       /\ resp[r2].pr.invoice = InvoiceOf(OwnServer(r2), call[r2].amount)
       /\ resp[r1].pr # resp[r2].pr

(***************************************************************************)
(* The signing identity of the clients, under every configuration: two     *)
(* requests for raw server keys and closeAll, so that a client is created  *)
(* again after a failed handshake and after closeAll.                      *)
(***************************************************************************)
InitSigner == Constructed(Configs)

NextSigner ==
    \/ \E r \in Reqs :
          \/ Arrive(r, {Raw("kA"), Raw("kB")}, {Param(Str10000)})
          \/ ConnectOk(r)
          \/ ConnectFail(r)
          \/ CallTool(r)
          \/ CallReturn(r, {"bare", "result"})
    \/ \E c \in CloseCallers :
          \/ CloseAllStart(c)
          \/ CloseAllFinish(c)

SpecSigner == InitSigner /\ [][NextSigner]_vars

\* The clients getClient has created so far.
Created == {h \in Handles : handle[h] # NoClient}

\* A key is configured: a non-empty clientPrivateKeyHex.
KeyConfigured == Truthy(config.clientPrivateKeyHex)

\* C32: with a key configured every client created signs with that key;
\* with none, every client created signs with a generated key that no other
\* client has, a retry after a failed handshake and a client created after
\* closeAll included; and a client's signer never changes.
C32_SigningIdentity ==
    /\ [](\A h \in Created :
            IF KeyConfigured
            THEN /\ ~handle[h].signer.generated
                 /\ handle[h].signer.hex = config.clientPrivateKeyHex.hex
            ELSE /\ handle[h].signer.generated
                 /\ \A g \in Created :
                       g # h => handle[g].signer # handle[h].signer)
    /\ [][/\ config' = config
          /\ \A h \in Created : handle'[h].signer = handle[h].signer]_vars

\* With no key configured, a request whose handshake failed was followed by
\* a request for the same server, and a client closed and cleared by
\* closeAll by a new client: two clients for one server, with two keys.
C32_Witness ==
    /\ ~KeyConfigured
    /\ \E g, h \in Created :
          /\ g # h
          /\ handle[g].peer = handle[h].peer
          /\ \/ handle[g].state = "failed"
             \/ /\ handle[g].state = "closed"
                /\ \E c \in CloseCallers : closer[c].pc = "done"
          /\ handle[h].state = "ready"
          /\ g \notin arrivedDuring[h]
          /\ handle[g].signer.generated /\ handle[h].signer.generated
          /\ handle[g].signer # handle[h].signer

=============================================================================
